---- MODULE Spec2Model ----
(***************************************************************************)
(* Model of the obsidian-annotation plugin: the annotation syntax parser   *)
(* (parser.ts), the CodeMirror editor extension (editorExtension.ts: the   *)
(* collector, the decoration builder, the view plugin, the DOM reconciler  *)
(* and the hover handler), the tooltip controller (tooltipWidget.ts), the  *)
(* reading view's post processor (postProcessor.ts) and the two editor     *)
(* commands (main.ts).                                                     *)
(*                                                                         *)
(* A text is a sequence of one-character strings.  Offsets are 0-based as  *)
(* in the source; the character at offset i of a text s is s[i + 1].       *)
(***************************************************************************)
EXTENDS Integers, Sequences, FiniteSets, TLC

VARIABLES
    pc,             \* which entry point has run: "input", then "line", "doc", "collect",
                    \* "windows", "fragment", "wrapMask" or "wrapComment"; "view",
                    \* "reconciler" and "editor" in the specifications of the view
    lineText,       \* parser input: the text handed to the parser
    offset,         \* parser input: absolute offset of the text's first character
    results,        \* the Annotation[] the parser returned, or the post processor's nodes
    doc,            \* view.state.doc: the document text
    visibleRanges,  \* view.visibleRanges: the visible windows [from, to)
    selection,      \* view.state.selection.ranges
    livePreview,    \* editorLivePreviewField: "on", "off" or "unavailable"
    decorations,    \* the view plugin's decorations: the directives added to the builder
    activeTooltip,  \* tooltipWidget.ts: the active tooltip element (0 for null)
    isEditing,      \* tooltipWidget.ts: the editing flag
    tooltips,       \* the tooltip elements attached to document.body, by element
    dispatched,     \* the edit requests the last handler handed to view.dispatch
    transactions,   \* the number of transactions that changed the document
    extension,      \* the version of createAnnotationEditorExtension in the view
    widgetElements, \* the rich-content elements of view.contentDOM
    unresolvable,   \* the elements of widgetElements for which view.posAtDOM throws
    blurred,        \* the elements carrying the class annotation-mask-widget
    frames,         \* the pending requestAnimationFrame callbacks
    lastEvent       \* the handler that ran last

parseVars == <<pc, lineText, offset, results>>
viewVars == <<doc, visibleRanges, selection, livePreview, decorations>>
tipVars == <<activeTooltip, isEditing, tooltips, dispatched, transactions>>
domVars == <<extension, widgetElements, unresolvable, blurred, frames>>
vars == <<parseVars, viewVars, tipVars, domVars, lastEvent>>

----------------------------------------------------------------------------
(* Bounds of the model.                                                    *)

MaxMarkerLen == 8   \* longest input over the marker characters = : ~
MaxLen == 5         \* longest input over the whole alphabet
MaxPart == 2        \* longest label / payload of a generated annotation
MaxOffset == 1      \* largest base offset handed to the parser
MaxSelLen == 2      \* longest selection range of the view
MaxTooltipEls == 2  \* tooltip elements that can exist at a time
MaxWidgets == 2      \* rich-content elements in the editor at a time
MaxFrames == 2       \* pending animation-frame callbacks
MaxTransactions == 2 \* document-changing transactions in one run
MaxWindows == 2      \* windows a text is cut into

----------------------------------------------------------------------------
(* Characters and texts.                                                   *)

NL == "\n"
MarkerChars == {"=", ":", "~"}
Alphabet == MarkerChars \cup {"a", NL}
PartChars == {"=", ":", "a"}
MaskPartChars == {"=", "~", "a"}
PlainChars == {"a", NL}

SeqsUpTo(S, n) == UNION {[1..k -> S] : k \in 0..n}

OPEN_COMMENT == <<"=", "=">>
SEPARATOR == <<":", ":">>
CLOSE_COMMENT == <<"=", "=">>
OPEN_MASK == <<"~", "=">>
CLOSE_MASK == <<"=", "~">>

\* s.slice(a, b) with 0-based offsets, a <= b
Slice(s, a, b) == SubSeq(s, a + 1, b)

\* pat occurs in s at 0-based offset i
OccursAt(s, pat, i) ==
    /\ i >= 0
    /\ i + Len(pat) <= Len(s)
    /\ \A q \in 1..Len(pat) : s[i + q] = pat[q]

Contains(s, pat) == \E i \in 0..Len(s) : OccursAt(s, pat, i)

Min(S) == CHOOSE x \in S : \A y \in S : x <= y

----------------------------------------------------------------------------
(* The two regular expressions, as the regex engine matches them: the      *)
(* leftmost start at or after lastIndex, and at that start each lazy group *)
(* as short as a complete match allows (the first group first).            *)

\* /==([\s\S]*?)::([\s\S]*?)==/ anchored at i: the offsets j of a separator
\* after which a closing marker follows.
CommentSeps(s, i) ==
    {j \in (i + 2)..Len(s) :
        /\ OccursAt(s, SEPARATOR, j)
        /\ \E k \in (j + 2)..Len(s) : OccursAt(s, CLOSE_COMMENT, k)}

CommentStarts(s, lastIndex) ==
    {i \in lastIndex..Len(s) : OccursAt(s, OPEN_COMMENT, i) /\ CommentSeps(s, i) # {}}

\* CommentExec with a one-character closing marker
CommentExecShortClose(s, lastIndex) ==
    LET i == Min({x \in lastIndex..Len(s) :
                    OccursAt(s, OPEN_COMMENT, x) /\ CommentSeps(s, x) # {}})
        j == Min(CommentSeps(s, i))
        k == Min({x \in (j + 2)..Len(s) : OccursAt(s, CLOSE_COMMENT, x)})
    IN  [index |-> i, length |-> k + 1 - i,
         g1 |-> Slice(s, i + 2, j), g2 |-> Slice(s, j + 2, k)]

\* COMMENT_REGEX.exec(s) from lastIndex, when it matches: index, length and the groups
CommentExec(s, lastIndex) ==
    LET i == Min(CommentStarts(s, lastIndex))
        j == Min(CommentSeps(s, i))
        k == Min({x \in (j + 2)..Len(s) : OccursAt(s, CLOSE_COMMENT, x)})
    IN  [index |-> i, length |-> k + 2 - i,
         g1 |-> Slice(s, i + 2, j), g2 |-> Slice(s, j + 2, k)]

\* /~=([\s\S]*?)=~/ anchored at i
MaskCloses(s, i) == {k \in (i + 2)..Len(s) : OccursAt(s, CLOSE_MASK, k)}

MaskStarts(s, lastIndex) ==
    {i \in lastIndex..Len(s) : OccursAt(s, OPEN_MASK, i) /\ MaskCloses(s, i) # {}}

MaskExec(s, lastIndex) ==
    LET i == Min(MaskStarts(s, lastIndex))
        k == Min(MaskCloses(s, i))
    IN  [index |-> i, length |-> k + 2 - i, g1 |-> Slice(s, i + 2, k)]

----------------------------------------------------------------------------
(* parser.ts                                                               *)

\* CommentAnnotation with the separator left out of prefixLen
CommentAnnotationNoSeparator(match, off) ==
    LET fullMatchStart == off + match.index
        fullMatchEnd == fullMatchStart + match.length
        comment == match.g1
        text == match.g2
        prefixLen == 2 + Len(comment)
        textFrom == fullMatchStart + prefixLen
        textTo == textFrom + Len(text)
    IN  [type |-> "comment", from |-> textFrom, to |-> textTo, comment |-> comment,
         syntaxFrom |-> fullMatchStart, syntaxTo |-> fullMatchEnd]

\* the body of the first while loop: one comment match to one annotation
CommentAnnotation(match, off) ==
    LET fullMatchStart == off + match.index
        fullMatchEnd == fullMatchStart + match.length
        comment == match.g1
        text == match.g2
        prefixLen == 2 + Len(comment) + 2
        textFrom == fullMatchStart + prefixLen
        textTo == textFrom + Len(text)
    IN  [type |-> "comment", from |-> textFrom, to |-> textTo, comment |-> comment,
         syntaxFrom |-> fullMatchStart, syntaxTo |-> fullMatchEnd]

\* MaskAnnotation with the payload starting at the opening marker
MaskAnnotationNoMarker(match, off) ==
    LET fullMatchStart == off + match.index
        fullMatchEnd == fullMatchStart + match.length
        text == match.g1
        textFrom == fullMatchStart
        textTo == textFrom + Len(text)
    IN  [type |-> "mask", from |-> textFrom, to |-> textTo,
         syntaxFrom |-> fullMatchStart, syntaxTo |-> fullMatchEnd]

\* MaskAnnotation with the whole match's length taken for the payload's
MaskAnnotationFullLength(match, off) ==
    LET fullMatchStart == off + match.index
        fullMatchEnd == fullMatchStart + match.length
        textFrom == fullMatchStart + 2
        textTo == textFrom + match.length
    IN  [type |-> "mask", from |-> textFrom, to |-> textTo,
         syntaxFrom |-> fullMatchStart, syntaxTo |-> fullMatchEnd]

\* the body of the second while loop: one mask match to one annotation
MaskAnnotation(match, off) ==
    LET fullMatchStart == off + match.index
        fullMatchEnd == fullMatchStart + match.length
        text == match.g1
        textFrom == fullMatchStart + 2
        textTo == textFrom + Len(text)
    IN  [type |-> "mask", from |-> textFrom, to |-> textTo,
         syntaxFrom |-> fullMatchStart, syntaxTo |-> fullMatchEnd]

\* ParseComments taking the end of the text for a missing closing marker
RECURSIVE ParseCommentsOpenEnded(_, _, _)
ParseCommentsOpenEnded(s, off, lastIndex) ==
    IF CommentStarts(s, lastIndex) # {}
    THEN LET m == CommentExec(s, lastIndex)
         IN  <<CommentAnnotation(m, off)>> \o ParseCommentsOpenEnded(s, off, m.index + m.length)
    ELSE LET opens == {i \in lastIndex..Len(s) :
                          /\ OccursAt(s, OPEN_COMMENT, i)
                          /\ \E j \in (i + 2)..Len(s) : OccursAt(s, SEPARATOR, j)}
         IN  IF opens = {} THEN <<>>
             ELSE LET i == Min(opens)
                      j == Min({x \in (i + 2)..Len(s) : OccursAt(s, SEPARATOR, x)})
                  IN  <<CommentAnnotation([index |-> i, length |-> Len(s) - i,
                                           g1 |-> Slice(s, i + 2, j),
                                           g2 |-> Slice(s, j + 2, Len(s))], off)>>

RECURSIVE ParseComments(_, _, _)
ParseComments(s, off, lastIndex) ==
    IF CommentStarts(s, lastIndex) = {} THEN <<>>
    ELSE LET m == CommentExec(s, lastIndex)
         IN  <<CommentAnnotation(m, off)>> \o ParseComments(s, off, m.index + m.length)

\* ParseMasks resuming one character after a match's start
RECURSIVE ParseMasksOverlapping(_, _, _)
ParseMasksOverlapping(s, off, lastIndex) ==
    IF MaskStarts(s, lastIndex) = {} THEN <<>>
    ELSE LET m == MaskExec(s, lastIndex)
         IN  <<MaskAnnotation(m, off)>> \o ParseMasksOverlapping(s, off, m.index + 1)

RECURSIVE ParseMasks(_, _, _)
ParseMasks(s, off, lastIndex) ==
    IF MaskStarts(s, lastIndex) = {} THEN <<>>
    ELSE LET m == MaskExec(s, lastIndex)
         IN  <<MaskAnnotation(m, off)>> \o ParseMasks(s, off, m.index + m.length)

parseAnnotationsFromLine(text, off) ==
    ParseComments(text, off, 0) \o ParseMasks(text, off, 0)

\* docText.split('\n'): the pieces between the newlines, in order
RECURSIVE Split(_)
Split(s) ==
    IF \A p \in 1..Len(s) : s[p] # NL THEN <<s>>
    ELSE LET p == Min({q \in 1..Len(s) : s[q] = NL})
         IN  <<SubSeq(s, 1, p - 1)>> \o Split(SubSeq(s, p + 1, Len(s)))

\* the for loop over the lines, from line number n with running offset off
RECURSIVE ParseLines(_, _, _)
ParseLines(lines, n, off) ==
    IF n > Len(lines) THEN <<>>
    ELSE parseAnnotationsFromLine(lines[n], off)
            \o ParseLines(lines, n + 1, off + Len(lines[n]) + 1)

parseAnnotations(docText) == ParseLines(Split(docText), 1, 0)

\* annotations.sort((a, b) => a.syntaxFrom - b.syntaxFrom): a stable sort
RECURSIVE InsertSorted(_, _)
InsertSorted(sorted, a) ==
    IF sorted = <<>> THEN <<a>>
    ELSE IF sorted[Len(sorted)].syntaxFrom <= a.syntaxFrom THEN Append(sorted, a)
    ELSE Append(InsertSorted(SubSeq(sorted, 1, Len(sorted) - 1), a), sorted[Len(sorted)])

RECURSIVE SortBySyntaxFrom(_)
SortBySyntaxFrom(anns) ==
    IF anns = <<>> THEN <<>>
    ELSE InsertSorted(SortBySyntaxFrom(SubSeq(anns, 1, Len(anns) - 1)), anns[Len(anns)])

----------------------------------------------------------------------------
(* editorExtension.ts: the collector                                       *)

\* CollectRanges with every window's offset starting at 0
RECURSIVE CollectRangesNoOffset(_, _, _)
CollectRangesNoOffset(docText, ranges, n) ==
    IF n > Len(ranges) THEN <<>>
    ELSE LET text == Slice(docText, ranges[n].from, ranges[n].to)
         IN  ParseLines(Split(text), 1, 0)
                \o CollectRangesNoOffset(docText, ranges, n + 1)

\* the outer for loop over view.visibleRanges, from range number n
RECURSIVE CollectRanges(_, _, _)
CollectRanges(docText, ranges, n) ==
    IF n > Len(ranges) THEN <<>>
    ELSE LET text == Slice(docText, ranges[n].from, ranges[n].to)
         IN  ParseLines(Split(text), 1, ranges[n].from)
                \o CollectRanges(docText, ranges, n + 1)

collectAnnotations(docText, ranges) == SortBySyntaxFrom(CollectRanges(docText, ranges, 1))

----------------------------------------------------------------------------
(* Sample texts.                                                           *)

Scenario1 == <<"=", "=", "n", "o", "t", "e", ":", ":", "h", "e", "l", "l", "o", "=", "=">>
Scenario2 == <<"~", "=", "s", "e", "c", "r", "e", "t", "=", "~">>
Scenario5 == <<"~", "=", "$", "x", "=", "1", "$", "=", "~">>

Scenario3 == <<"=", "=", "a", ":", ":", "b", "=", "=", " ", "=", "=", "c", ":", ":", "d", "=", "=">>
Scenario4 == <<"=", "=", "o", "p", "e", "n", ":", ":", "t", "e", "x", "t">>

\* a mask inside the payload of a comment
MaskInPayload ==
    <<"=", "=", "a", ":", ":", "~", "=", "a", "=", "~", "a", "=", "=">>

Pads == {<<>>, <<"a">>}

\* two annotations next to each other
Singles ==
    {OPEN_COMMENT \o SEPARATOR \o CLOSE_COMMENT,
     OPEN_COMMENT \o <<"a">> \o SEPARATOR \o <<"a">> \o CLOSE_COMMENT,
     OPEN_MASK \o CLOSE_MASK,
     OPEN_MASK \o <<"a">> \o CLOSE_MASK}

PairTexts == {a \o sep \o b : a \in Singles, b \in Singles, sep \in {<<>>, <<NL>>}}

----------------------------------------------------------------------------
(* editorExtension.ts: the decoration builder                              *)

\* view.state.field(editorLivePreviewField) inside try/catch
IsLivePreview(mode) == IF mode = "unavailable" THEN FALSE ELSE mode = "on"

\* the containment test with both ends exclusive
CursorInsideExclusive(sel, ann) ==
    \E n \in 1..Len(sel) : sel[n].from > ann.syntaxFrom /\ sel[n].to < ann.syntaxTo

\* view.state.selection.ranges.some(range => ...)
CursorInside(sel, ann) ==
    \E n \in 1..Len(sel) : sel[n].from >= ann.syntaxFrom /\ sel[n].to <= ann.syntaxTo

\* Decoration.replace({widget: new HiddenMarkerWidget()}) added over [from, to)
HideMarker(from, to) ==
    [from |-> from, to |-> to, kind |-> "hide", class |-> "", attr |-> <<>>, content |-> <<>>]

\* the comment mark without the data-annotation-comment attribute
CommentMarkNoAttribute(ann) ==
    [from |-> ann.from, to |-> ann.to, kind |-> "mark", class |-> "annotation-comment",
     attr |-> <<>>, content |-> <<>>]

\* Decoration.mark({class: 'annotation-comment', attributes: {...}}) added over [from, to)
CommentMark(ann) ==
    [from |-> ann.from, to |-> ann.to, kind |-> "mark", class |-> "annotation-comment",
     attr |-> ann.comment, content |-> <<>>]

\* the mask mark over the whole syntax instead of the payload
MaskMarkWholeSyntax(ann) ==
    [from |-> ann.syntaxFrom, to |-> ann.syntaxTo, kind |-> "mark", class |-> "annotation-mask",
     attr |-> <<>>, content |-> <<>>]

\* Decoration.mark({class: 'annotation-mask'}) added over [from, to)
MaskMark(ann) ==
    [from |-> ann.from, to |-> ann.to, kind |-> "mark", class |-> "annotation-mask",
     attr |-> <<>>, content |-> <<>>]

\* Decoration.replace({widget: new MaskWidget(maskContent)}) over the whole syntax
MaskWidget(docText, ann) ==
    [from |-> ann.syntaxFrom, to |-> ann.syntaxTo, kind |-> "widget", class |-> "annotation-mask",
     attr |-> <<>>, content |-> Slice(docText, ann.from, ann.to)]

\* the builder.add calls one annotation causes, in order
DirectivesOf(docText, sel, live, ann) ==
    IF ann.type = "comment" THEN
        IF live THEN
            IF ~CursorInside(sel, ann)
            THEN <<HideMarker(ann.syntaxFrom, ann.from), CommentMark(ann),
                   HideMarker(ann.to, ann.syntaxTo)>>
            ELSE <<CommentMark(ann)>>
        ELSE <<CommentMark(ann)>>
    ELSE
        IF live THEN
            IF ~CursorInside(sel, ann)
            THEN <<MaskWidget(docText, ann)>>
            ELSE <<MaskMark(ann)>>
        ELSE <<MaskMark(ann)>>

\* the for loop over the annotations, from annotation number n
RECURSIVE BuildFrom(_, _, _, _, _)
BuildFrom(docText, sel, live, anns, n) ==
    IF n > Len(anns) THEN <<>>
    ELSE DirectivesOf(docText, sel, live, anns[n]) \o BuildFrom(docText, sel, live, anns, n + 1)

\* buildDecorations(view, annotations): a new RangeSetBuilder, the loop, finish()
buildDecorations(docText, sel, mode, anns) ==
    BuildFrom(docText, sel, IsLivePreview(mode), anns, 1)

\* the builder.add calls one annotation causes in the versions of
\* src/src/editorExtension.ts: a mask's markers are hidden and its payload marked
DirectivesOfMarkers(sel, live, ann) ==
    IF ann.type = "comment" THEN
        IF live THEN
            IF ~CursorInside(sel, ann)
            THEN <<HideMarker(ann.syntaxFrom, ann.from), CommentMark(ann),
                   HideMarker(ann.to, ann.syntaxTo)>>
            ELSE <<CommentMark(ann)>>
        ELSE <<CommentMark(ann)>>
    ELSE
        IF live THEN
            IF ~CursorInside(sel, ann)
            THEN <<HideMarker(ann.syntaxFrom, ann.from), MaskMark(ann),
                   HideMarker(ann.to, ann.syntaxTo)>>
            ELSE <<MaskMark(ann)>>
        ELSE <<MaskMark(ann)>>

RECURSIVE BuildFromMarkers(_, _, _, _)
BuildFromMarkers(sel, live, anns, n) ==
    IF n > Len(anns) THEN <<>>
    ELSE DirectivesOfMarkers(sel, live, anns[n]) \o BuildFromMarkers(sel, live, anns, n + 1)

\* buildDecorations of src/src/editorExtension.ts, the mode flag being readable
buildDecorationsMarkers(sel, live, anns) ==
    BuildFromMarkers(sel, live, anns, 1)

----------------------------------------------------------------------------
(* editorExtension.ts: the view plugin.  Three versions of the extension   *)
(* are in the repository: "widget" (part_003: a mask is replaced by a      *)
(* widget), "reconciler" (editorExtension.ts, first half: markers hidden,  *)
(* blur tags applied to the DOM in animation frames) and "first"           *)
(* (editorExtension.ts, second half: markers hidden, mode flag read        *)
(* without a guard).  "none" is a view whose plugin the host deactivated.  *)

Extensions == {"widget", "reconciler", "first"}

\* view.state.field(editorLivePreviewField) outside try/catch throws
FieldThrows(ext, mode) == ext = "first" /\ mode = "unavailable"

\* the directives of one annotation in version ext
DirectivesBy(ext, docText, sel, mode, ann) ==
    IF ext = "widget"
    THEN DirectivesOf(docText, sel, IsLivePreview(mode), ann)
    ELSE DirectivesOfMarkers(sel, IsLivePreview(mode), ann)

\* buildDecorations of version ext on the annotations anns
Decorate(ext, docText, sel, mode, anns) ==
    IF ext = "widget"
    THEN buildDecorations(docText, sel, mode, anns)
    ELSE buildDecorationsMarkers(sel, IsLivePreview(mode), anns)

\* an update that builds from the selection of the state before the update
PluginUpdateStale(event, anns) ==
    /\ decorations' = Decorate(extension, doc', selection, livePreview', anns)
    /\ lastEvent' = event
    /\ extension' = extension

\* an update whose builder call adds to the directives of the call before
PluginUpdateAccumulating(event, anns) ==
    /\ decorations' = decorations \o Decorate(extension, doc', selection', livePreview', anns)
    /\ lastEvent' = event
    /\ extension' = extension

\* update(update) of the plugin after event: the rebuild, or the host
\* deactivating a plugin whose update threw
PluginUpdate(event, anns) ==
    IF extension = "none"
    THEN /\ decorations' = <<>>
         /\ lastEvent' = event
         /\ extension' = extension
    ELSE IF FieldThrows(extension, livePreview')
    THEN /\ decorations' = <<>>
         /\ lastEvent' = "updateFailed"
         /\ extension' = "none"
    ELSE /\ decorations' = Decorate(extension, doc', selection', livePreview', anns)
         /\ lastEvent' = event
         /\ extension' = extension

\* this.decorations = buildDecorations(view, collectAnnotations(view))
Rebuild(docText, ranges, sel, mode) ==
    buildDecorations(docText, sel, mode, collectAnnotations(docText, ranges))

\* the documents of the view: a comment and a mask side by side and on two
\* lines, a comment with an empty payload overlapped by a mask, and a mask
\* inside a comment's label
ViewDocs ==
    {<<"=", "=", "a", ":", ":", "a", "=", "=", "~", "=", "a", "=", "~">>,
     <<"~", "=", "a", "=", "~", NL, "=", "=", "a", ":", ":", "a", "=", "=">>,
     <<"=", "=", ":", ":", "~", "=", "=", "~">>,
     <<"=", "=", "~", "=", "a", "=", "~", ":", ":", "a", "=", "=">>}

\* the offsets at which a line of the document starts, and at which one ends
LineStarts(docText) == {0} \cup {p \in 1..Len(docText) : docText[p] = NL}
LineEnds(docText) == {Len(docText)} \cup {p - 1 : p \in {q \in 1..Len(docText) : docText[q] = NL}}

\* the visible windows the host may report: one or two disjoint windows of whole lines
Viewports(docText) ==
    {<<[from |-> w[1], to |-> w[2]]>> :
        w \in {x \in LineStarts(docText) \X LineEnds(docText) : x[1] <= x[2]}}
    \cup {<<[from |-> 0, to |-> w[1]], [from |-> w[2], to |-> Len(docText)]>> :
            w \in {x \in LineEnds(docText) \X LineStarts(docText) : x[1] < x[2]}}

\* the selections the host may report: one range of at most MaxSelLen characters,
\* or a cursor at the start of the document and a second cursor
Selections(docText) ==
    {<<[from |-> r[1], to |-> r[2]]>> :
        r \in {x \in (0..Len(docText)) \X (0..Len(docText)) :
                x[1] <= x[2] /\ x[2] - x[1] <= MaxSelLen}}
    \cup {<<[from |-> 0, to |-> 0], [from |-> c, to |-> c]>> : c \in 1..Len(docText)}

Modes == {"on", "off", "unavailable"}

\* constructor(view)
InitView ==
    /\ pc = "view" /\ lineText = <<>> /\ offset = 0 /\ results = <<>>
    /\ doc \in ViewDocs
    /\ visibleRanges = <<[from |-> 0, to |-> Len(doc)]>>
    /\ selection = <<[from |-> 0, to |-> 0]>>
    /\ livePreview \in Modes
    /\ \E ext \in {"widget", "first"} :
           IF FieldThrows(ext, livePreview)
           THEN decorations = <<>> /\ extension = "none" /\ lastEvent = "constructorFailed"
           ELSE /\ decorations = Decorate(ext, doc, selection, livePreview,
                                          collectAnnotations(doc, visibleRanges))
                /\ extension = ext /\ lastEvent = "constructor"
    /\ activeTooltip = 0 /\ isEditing = FALSE /\ tooltips = <<>>
    /\ dispatched = <<>> /\ transactions = 0
    /\ widgetElements = {} /\ unresolvable = {} /\ blurred = {} /\ frames = 0

\* update(update) with update.docChanged: a transaction replaced the text
DocChanged ==
    \E d \in ViewDocs \ {doc} :
        /\ doc' = d
        /\ visibleRanges' = <<[from |-> 0, to |-> Len(d)]>>
        /\ selection' = <<[from |-> 0, to |-> 0]>>
        /\ UNCHANGED <<parseVars, tipVars, livePreview, widgetElements, unresolvable,
                       blurred, frames>>
        /\ PluginUpdate("docChanged", collectAnnotations(doc', visibleRanges'))

\* update(update) with update.viewportChanged: the host scrolled or resized
ViewportChanged ==
    \E v \in Viewports(doc) \ {visibleRanges} :
        /\ visibleRanges' = v
        /\ UNCHANGED <<parseVars, tipVars, doc, selection, livePreview,
                       widgetElements, unresolvable, blurred, frames>>
        /\ PluginUpdate("viewportChanged", collectAnnotations(doc, visibleRanges'))

\* update(update) with update.selectionSet: the cursor or the selection moved
SelectionSet ==
    \E annotations \in {collectAnnotations(doc, visibleRanges)} :
        \E sel \in Selections(doc) \ {selection} :
            /\ selection' = sel
            /\ UNCHANGED <<parseVars, tipVars, doc, visibleRanges, livePreview,
                           widgetElements, unresolvable, blurred, frames>>
            /\ PluginUpdate("selectionSet", annotations)

\* update(update) with update.selectionSet set by a transaction that gives the
\* selection the value it has: the builder is called again on the same view
SelectionReset ==
    /\ pc = "view"
    /\ UNCHANGED <<parseVars, tipVars, doc, visibleRanges, selection, livePreview,
                   widgetElements, unresolvable, blurred, frames>>
    /\ PluginUpdate("selectionSet", collectAnnotations(doc, visibleRanges))

\* update(update) with none of the three flags set: the host switched between
\* source mode and live preview, and the plugin keeps its decorations
ModeChanged ==
    \E m \in Modes \ {livePreview} :
        /\ livePreview' = m
        /\ lastEvent' = "modeChanged"
        /\ UNCHANGED <<parseVars, tipVars, domVars, doc, visibleRanges, selection, decorations>>

NextView == DocChanged \/ ViewportChanged \/ SelectionSet \/ SelectionReset \/ ModeChanged

SpecView == InitView /\ [][NextView]_vars

----------------------------------------------------------------------------
(* editorExtension.ts: the DOM reconciler of the "reconciler" version.  A  *)
(* rich-content element is named by the document position posAtDOM gives  *)
(* for it.                                                                 *)

\* activeMasks: the masks no selection range lies in
ActiveMasks(sel, anns) ==
    {n \in 1..Len(anns) : anns[n].type = "mask" /\ ~CursorInside(sel, anns[n])}

\* applyDomMaskEffects that leaves the tags of earlier passes in place
applyDomMaskEffectsNoClear(sel, mode, anns, elements, throwing, tagged) ==
    IF mode # "on" THEN tagged
    ELSE tagged \cup {el \in elements \ throwing :
                         \E n \in ActiveMasks(sel, anns) :
                             el >= anns[n].from /\ el <= anns[n].to}

\* applyDomMaskEffects without the try/catch around posAtDOM: the error of the
\* first failing element, in document order, ends the loop
applyDomMaskEffectsAbort(sel, mode, anns, elements, throwing, tagged) ==
    IF mode # "on" THEN {}
    ELSE {el \in elements \ throwing :
             /\ \A t \in elements \cap throwing : el < t
             /\ \E n \in ActiveMasks(sel, anns) :
                    el >= anns[n].from /\ el <= anns[n].to}

\* applyDomMaskEffects(view, annotations): the elements tagged after the pass
\* posAtDOM throws for the elements of throwing; the catch skips the element
applyDomMaskEffects(sel, mode, anns, elements, throwing, tagged) ==
    LET cleared == {}
    IN  IF {n \in 1..Len(anns) : anns[n].type = "mask"} = {} THEN cleared
        ELSE IF mode = "unavailable" THEN cleared
        ELSE IF mode # "on" THEN cleared
        ELSE IF ActiveMasks(sel, anns) = {} THEN cleared
        ELSE cleared \cup {el \in elements :
                              /\ el \notin throwing
                              /\ \E n \in ActiveMasks(sel, anns) :
                                     el >= anns[n].from /\ el <= anns[n].to}

\* the documents of the reconciler's view: a mask between two characters, and a
\* comment alone
ReconDocs ==
    {<<"a", "~", "=", "a", "a", "=", "~", "a">>,
     <<"=", "=", "a", ":", ":", "a", "=", "=">>}

\* the boundaries of the annotations of the text
Boundaries(docText) ==
    LET anns == parseAnnotations(docText)
    IN  UNION {{anns[n].syntaxFrom, anns[n].from, anns[n].to, anns[n].syntaxTo} :
                  n \in 1..Len(anns)}

\* the cursors the host may report: at either end of the text and at the start of
\* a payload
Cursors(docText) ==
    {<<[from |-> c, to |-> c]>> :
        c \in {0, Len(docText)}
              \cup {parseAnnotations(docText)[n].from : n \in 1..Len(parseAnnotations(docText))}}

\* the positions at which the host may render a rich-content element: the start
\* of the text and the boundaries of the annotations
ElementPositions(docText) == {0} \cup Boundaries(docText)

\* constructor(view): collect, build, and one animation-frame callback
InitReconciler ==
    /\ pc = "reconciler" /\ lineText = <<>> /\ offset = 0 /\ results = <<>>
    /\ doc \in ReconDocs
    /\ visibleRanges = <<[from |-> 0, to |-> Len(doc)]>>
    /\ selection = <<[from |-> 0, to |-> 0]>>
    /\ livePreview \in Modes
    /\ extension = "reconciler"
    /\ decorations = Decorate(extension, doc, selection, livePreview,
                              collectAnnotations(doc, visibleRanges))
    /\ activeTooltip = 0 /\ isEditing = FALSE /\ tooltips = <<>>
    /\ dispatched = <<>> /\ transactions = 0
    /\ widgetElements = {} /\ unresolvable = {} /\ blurred = {} /\ frames = 1
    /\ lastEvent = "constructor"

\* update(update) with update.docChanged; the host renders the new text
ReconDocChanged ==
    \E d \in ReconDocs \ {doc} :
        /\ frames < MaxFrames
        /\ doc' = d
        /\ visibleRanges' = <<[from |-> 0, to |-> Len(d)]>>
        /\ selection' = <<[from |-> 0, to |-> 0]>>
        /\ UNCHANGED <<parseVars, tipVars, livePreview>>
        /\ PluginUpdate("docChanged", collectAnnotations(doc', visibleRanges'))
        /\ frames' = frames + 1
        /\ widgetElements' = {} /\ unresolvable' = {} /\ blurred' = {}

\* update(update) with update.selectionSet
ReconSelectionSet ==
    \E sel \in Cursors(doc) \ {selection} :
        /\ frames < MaxFrames
        /\ selection' = sel
        /\ UNCHANGED <<parseVars, tipVars, doc, visibleRanges, livePreview,
                       widgetElements, unresolvable, blurred>>
        /\ PluginUpdate("selectionSet", collectAnnotations(doc, visibleRanges))
        /\ frames' = frames + 1

\* the host switches the mode: no flag of the update is set, nothing is scheduled
ReconModeChanged ==
    \E m \in Modes \ {livePreview} :
        /\ livePreview' = m
        /\ lastEvent' = "modeChanged"
        /\ UNCHANGED <<parseVars, tipVars, domVars, doc, visibleRanges, selection, decorations>>

\* a requestAnimationFrame callback runs applyDomMaskEffects(view, this.annotations)
AnimationFrame ==
    /\ frames > 0
    /\ frames' = frames - 1
    /\ blurred' = applyDomMaskEffects(selection, livePreview,
                                      collectAnnotations(doc, visibleRanges),
                                      widgetElements, unresolvable, blurred)
    /\ lastEvent' = "frame"
    /\ UNCHANGED <<parseVars, viewVars, tipVars, extension, widgetElements,
                   unresolvable>>

\* the host finishes rendering a rich-content element at position el
RenderWidget ==
    \E el \in ElementPositions(doc) \ widgetElements :
        /\ Cardinality(widgetElements) < MaxWidgets
        /\ widgetElements' = widgetElements \cup {el}
        /\ lastEvent' = "render"
        /\ UNCHANGED <<parseVars, viewVars, tipVars, extension, unresolvable, blurred,
                       frames>>

\* the host takes a rich-content element out of the editor's view tree while its
\* node is still found by the query: posAtDOM throws for it from now on
DetachWidget ==
    \E el \in widgetElements \ unresolvable :
        /\ unresolvable' = unresolvable \cup {el}
        /\ lastEvent' = "detach"
        /\ UNCHANGED <<parseVars, viewVars, tipVars, extension, widgetElements, blurred,
                       frames>>

\* the host removes a rich-content element from the editor
RemoveWidget ==
    \E el \in widgetElements :
        /\ widgetElements' = widgetElements \ {el}
        /\ unresolvable' = unresolvable \ {el}
        /\ blurred' = blurred \ {el}
        /\ lastEvent' = "remove"
        /\ UNCHANGED <<parseVars, viewVars, tipVars, extension, frames>>

NextReconciler ==
    \/ ReconDocChanged \/ ReconSelectionSet \/ ReconModeChanged
    \/ AnimationFrame \/ RenderWidget \/ DetachWidget \/ RemoveWidget

SpecReconciler == InitReconciler /\ [][NextReconciler]_vars

----------------------------------------------------------------------------
(* tooltipWidget.ts: the tooltip controller.  Its state is the record      *)
(* [active, editing, els]: the module's activeTooltip and isEditing, and   *)
(* the tooltip elements attached to the container.  An element is          *)
(* [comment, display, shown, editable, ann, input, value]: the comment its *)
(* closures captured, displayContainer's text and visibility, whether      *)
(* onSave was given, the annotation onSave captured, whether the textarea  *)
(* is attached, and the attached textarea's value.                         *)

Whitespace == {" ", NL}

\* String.prototype.trim
RECURSIVE Trim(_)
Trim(v) ==
    IF v = <<>> THEN v
    ELSE IF Head(v) \in Whitespace THEN Trim(Tail(v))
    ELSE IF v[Len(v)] \in Whitespace THEN Trim(SubSeq(v, 1, Len(v) - 1))
    ELSE v

\* the function f without the element id
Without(f, id) == [x \in (DOMAIN f) \ {id} |-> f[x]]

\* hideTooltip without the editing guard
hideTooltipWhileEditing(tt) ==
    IF tt.active # 0
    THEN [tt EXCEPT !.els = Without(tt.els, tt.active), !.active = 0]
    ELSE tt

hideTooltip(tt) ==
    IF tt.editing THEN tt
    ELSE IF tt.active # 0
         THEN [tt EXCEPT !.els = Without(tt.els, tt.active), !.active = 0]
         ELSE tt

\* document.createElement: an element distinct from every attached one
FreshElement(tt) == Min((1..MaxTooltipEls) \ DOMAIN tt.els)

\* showTooltip attaching the click listener whether or not onSave was given
NewTooltipAlwaysEditable(comment, onSave) ==
    [comment |-> comment, display |-> comment, shown |-> TRUE,
     editable |-> TRUE, ann |-> onSave, input |-> FALSE, value |-> <<>>]

\* the tooltip element showTooltip builds; onSave is <<ann>> when given, <<>> when not
NewTooltip(comment, onSave) ==
    [comment |-> comment, display |-> comment, shown |-> TRUE,
     editable |-> onSave # <<>>, ann |-> onSave, input |-> FALSE, value |-> <<>>]

\* showTooltip without the hideTooltip() call
showTooltipNoHide(tt, comment, onSave) ==
    IF tt.editing THEN tt
    ELSE LET id == FreshElement(tt)
         IN  [tt EXCEPT !.els = (id :> NewTooltip(comment, onSave)) @@ tt.els,
                        !.active = id]

showTooltip(tt, comment, onSave) ==
    IF tt.editing THEN tt
    ELSE LET hidden == hideTooltip(tt)
             id == FreshElement(tt)
         IN  [hidden EXCEPT !.els = (id :> NewTooltip(comment, onSave)) @@ hidden.els,
                            !.active = id]

\* enterEditMode(tooltip, displayContainer, initialComment, onSave) up to the listeners
enterEditMode(tt, id) ==
    [tt EXCEPT !.editing = TRUE, !.els[id].shown = FALSE, !.els[id].input = TRUE,
               !.els[id].value = tt.els[id].comment]

\* cleanupEdit
cleanupEdit(tt, id) ==
    [tt EXCEPT !.editing = FALSE, !.els[id].shown = TRUE, !.els[id].input = FALSE,
               !.els[id].value = <<>>]

\* saveChanges after onSave returned: the display text and the cleanup
saveChanges(tt, id) ==
    LET newVal == Trim(tt.els[id].value)
        initialComment == tt.els[id].comment
    IN  IF newVal # <<>> /\ newVal # initialComment
        THEN cleanupEdit([tt EXCEPT !.els[id].display = newVal], id)
        ELSE cleanupEdit([tt EXCEPT !.els[id].display = initialComment], id)

\* saveChanges calls onSave
CallsOnSave(tt, id) ==
    Trim(tt.els[id].value) # <<>> /\ Trim(tt.els[id].value) # tt.els[id].comment

----------------------------------------------------------------------------
(* editorExtension.ts: the hover handler                                   *)

Max(S) == CHOOSE x \in S : \A y \in S : x >= y

\* view.state.doc.lineAt(pos)
LineAt(docText, pos) ==
    LET from == Max({x \in LineStarts(docText) : x <= pos})
        to == Min({x \in LineEnds(docText) : x >= pos})
    IN  [from |-> from, to |-> to, text |-> Slice(docText, from, to)]

\* annotations.find(a => a.type === 'comment' && a.from <= pos && a.to >= pos):
\* <<ann>> for the first such annotation, <<>> for undefined
FindComment(annotations, pos) ==
    LET hits == {n \in 1..Len(annotations) :
                    /\ annotations[n].type = "comment"
                    /\ annotations[n].from <= pos /\ annotations[n].to >= pos}
    IN  IF hits = {} THEN <<>> ELSE <<annotations[Min(hits)]>>

\* the annotation the mouseover handler resolves for a span at pos
ResolveAnnotation(docText, pos) ==
    LET line == LineAt(docText, pos)
    IN  FindComment(parseAnnotationsFromLine(line.text, line.from), pos)

\* onSave replacing the whole syntax up to the payload's end
OnSaveWholePrefix(ann, newComment) ==
    [from |-> ann.syntaxFrom, to |-> ann.to,
     insert |-> OPEN_COMMENT \o newComment \o SEPARATOR]

\* the changes onSave hands to view.dispatch
OnSave(ann, newComment) ==
    [from |-> ann.syntaxFrom, to |-> ann.from,
     insert |-> OPEN_COMMENT \o newComment \o SEPARATOR]

\* view.dispatch rejects a change range that lies outside the document
ValidChange(docText, change) ==
    0 <= change.from /\ change.from <= change.to /\ change.to <= Len(docText)

\* the document after the change
ApplyChange(docText, change) ==
    Slice(docText, 0, change.from) \o change.insert \o Slice(docText, change.to, Len(docText))

\* the comment spans the decorations put into the editor's DOM
CommentSpans ==
    {n \in 1..Len(decorations) :
        /\ decorations[n].kind = "mark"
        /\ decorations[n].class = "annotation-comment"
        /\ decorations[n].from < decorations[n].to}

Controller == [active |-> activeTooltip, editing |-> isEditing, els |-> tooltips]

SetController(tt) ==
    /\ activeTooltip' = tt.active
    /\ isEditing' = tt.editing
    /\ tooltips' = tt.els

TipDocs ==
    {<<"a", "a", "a", "a", NL, "=", "=", "a", "b", "c", ":", ":", "x", "=", "=">>,
     <<"=", "=", "a", "b", ":", ":", "x", "=", "=", "a", "=", "=", "c", ":", ":", "y", "=", "=">>}

\* what the user may leave in the textarea
InputValues ==
    {<<"h", "i">>, <<" ", "h", "i", " ">>, <<"a", "b", "c", "d">>, <<" ">>}

InitTooltip ==
    /\ pc = "editor" /\ lineText = <<>> /\ offset = 0 /\ results = <<>>
    /\ doc \in TipDocs
    /\ visibleRanges = <<[from |-> 0, to |-> Len(doc)]>>
    /\ selection = <<[from |-> 0, to |-> 0]>>
    /\ livePreview \in {"on", "off"}
    /\ decorations = Rebuild(doc, visibleRanges, selection, livePreview)
    /\ activeTooltip = 0 /\ isEditing = FALSE /\ tooltips = <<>>
    /\ dispatched = <<>> /\ transactions = 0
    /\ extension = "widget" /\ widgetElements = {} /\ unresolvable = {} /\ blurred = {} /\ frames = 0
    /\ lastEvent = "constructor"

\* a transaction replaced the text by docText: the state and the plugin's update
Transaction(docText) ==
    /\ doc' = docText
    /\ visibleRanges' = <<[from |-> 0, to |-> Len(docText)]>>
    /\ selection' = <<[from |-> 0, to |-> 0]>>
    /\ decorations' = Rebuild(doc', visibleRanges', selection', livePreview)
    /\ transactions' = transactions + 1
    /\ UNCHANGED <<parseVars, domVars, livePreview>>

\* hoverHandler.mouseover on a comment span of the editor
MouseOver ==
    \E n \in CommentSpans :
        \E pos \in decorations[n].from..(decorations[n].to - 1) :
            LET comment == decorations[n].attr
                ann == ResolveAnnotation(doc, pos)
            IN  /\ Cardinality(DOMAIN tooltips) < MaxTooltipEls
                /\ IF comment # <<>>
                   THEN SetController(showTooltip(Controller, comment, ann))
                   ELSE UNCHANGED <<activeTooltip, isEditing, tooltips>>
                /\ dispatched' = <<>>
                /\ lastEvent' = "mouseover"
                /\ UNCHANGED <<parseVars, domVars, viewVars, transactions>>

\* postProcessor.ts: the comment matches of a rendered text node
ReadingMatches(text) == ParseComments(text, 0, 0)

\* the mouseenter listener of a comment span of the reading view
MouseEnterReading ==
    \E n \in 1..Len(ReadingMatches(doc)) :
        /\ Cardinality(DOMAIN tooltips) < MaxTooltipEls
        /\ SetController(showTooltip(Controller, ReadingMatches(doc)[n].comment, <<>>))
        /\ dispatched' = <<>>
        /\ lastEvent' = "mouseenter"
        /\ UNCHANGED <<parseVars, domVars, viewVars, transactions>>

\* hoverHandler.mouseout, and the reading view's mouseleave, not onto the tooltip
MouseOut ==
    /\ SetController(hideTooltip(Controller))
    /\ dispatched' = <<>>
    /\ lastEvent' = "mouseout"
    /\ UNCHANGED <<parseVars, domVars, viewVars, transactions>>

\* the click listener of an editable tooltip's display container
ClickDisplay ==
    \E id \in DOMAIN tooltips :
        /\ tooltips[id].editable /\ tooltips[id].shown
        /\ SetController(enterEditMode(Controller, id))
        /\ dispatched' = <<>>
        /\ lastEvent' = "click"
        /\ UNCHANGED <<parseVars, domVars, viewVars, transactions>>

\* the user types in the attached textarea; no listener of the program runs
TypeInput ==
    \E id \in DOMAIN tooltips : \E value \in InputValues \ {tooltips[id].value} :
        /\ tooltips[id].input
        /\ tooltips' = [tooltips EXCEPT ![id].value = value]
        /\ lastEvent' = "input"
        /\ UNCHANGED <<parseVars, domVars, viewVars, activeTooltip, isEditing, dispatched,
                       transactions>>

\* blur, or Enter without shift, on the textarea: saveChanges
Confirm ==
    \E id \in DOMAIN tooltips :
        /\ tooltips[id].input
        /\ IF CallsOnSave(Controller, id)
           THEN LET change == OnSave(tooltips[id].ann[1], Trim(tooltips[id].value))
                IN  /\ dispatched' = <<change>>
                    /\ IF ValidChange(doc, change)
                       THEN /\ transactions < MaxTransactions
                            /\ Transaction(ApplyChange(doc, change))
                            /\ SetController(saveChanges(Controller, id))
                            /\ lastEvent' = "save"
                       ELSE /\ UNCHANGED <<parseVars, domVars, viewVars, transactions>>
                            /\ UNCHANGED <<activeTooltip, isEditing, tooltips>>
                            /\ lastEvent' = "saveFailed"
           ELSE /\ dispatched' = <<>>
                /\ SetController(saveChanges(Controller, id))
                /\ lastEvent' = "revert"
                /\ UNCHANGED <<parseVars, domVars, viewVars, transactions>>

\* Escape on the textarea: cleanupEdit
Cancel ==
    \E id \in DOMAIN tooltips :
        /\ tooltips[id].input
        /\ SetController(cleanupEdit(Controller, id))
        /\ dispatched' = <<>>
        /\ lastEvent' = "cancel"
        /\ UNCHANGED <<parseVars, domVars, viewVars, transactions>>

\* the text without its first line
DropFirstLine(docText) ==
    LET end == Min(LineEnds(docText))
    IN  IF end < Len(docText) THEN Slice(docText, end + 1, Len(docText)) ELSE <<>>

\* the document changes while a tooltip may be open: a character typed at the
\* start of the document, or its first line deleted
UserEdit ==
    \E docText \in {<<"a">> \o doc, DropFirstLine(doc)} :
        /\ transactions < MaxTransactions
        /\ Transaction(docText)
        /\ dispatched' = <<>>
        /\ lastEvent' = "userEdit"
        /\ UNCHANGED <<activeTooltip, isEditing, tooltips>>

NextTooltip ==
    \/ MouseOver \/ MouseEnterReading \/ MouseOut \/ ClickDisplay
    \/ TypeInput \/ Confirm \/ Cancel \/ UserEdit

SpecTooltip == InitTooltip /\ [][NextTooltip]_vars

----------------------------------------------------------------------------
(* The parser's entry points applied to bounded inputs.                    *)

\* one comment or one mask written around generated parts
CommentTexts ==
    {pre \o OPEN_COMMENT \o c \o SEPARATOR \o t \o CLOSE_COMMENT \o post :
        pre \in Pads, post \in Pads,
        c \in SeqsUpTo(PartChars, MaxPart), t \in SeqsUpTo(PartChars \cup {NL}, MaxPart)}

MaskTexts ==
    {OPEN_MASK \o t \o CLOSE_MASK : t \in SeqsUpTo(MaskPartChars \cup {NL}, MaxPart + 1)}

Texts ==
    SeqsUpTo(MarkerChars, MaxMarkerLen) \cup SeqsUpTo(Alphabet, MaxLen)
        \cup CommentTexts \cup MaskTexts \cup PairTexts
        \cup {Scenario1, Scenario2, Scenario3, Scenario4, Scenario5, MaskInPayload}

\* the view and the tooltip take no part in the parser's specification
NoView ==
    /\ doc = <<>>
    /\ visibleRanges = <<>>
    /\ selection = <<>>
    /\ livePreview = "off"
    /\ decorations = <<>>
    /\ activeTooltip = 0 /\ isEditing = FALSE /\ tooltips = <<>>
    /\ dispatched = <<>> /\ transactions = 0
    /\ extension = "none" /\ widgetElements = {} /\ unresolvable = {} /\ blurred = {} /\ frames = 0
    /\ lastEvent = "none"

InitParse ==
    /\ pc = "input"
    /\ lineText \in Texts
    /\ offset \in 0..MaxOffset
    /\ results = <<>>
    /\ NoView

\* a caller hands one text and its offset to parseAnnotationsFromLine
ParseLine ==
    /\ pc = "input"
    /\ results' = parseAnnotationsFromLine(lineText, offset)
    /\ pc' = "line"
    /\ UNCHANGED <<lineText, offset, viewVars, tipVars, domVars, lastEvent>>

\* a caller hands a whole document to parseAnnotations
ParseDoc ==
    /\ pc = "input"
    /\ offset = 0
    /\ results' = parseAnnotations(lineText)
    /\ pc' = "doc"
    /\ UNCHANGED <<lineText, offset, viewVars, tipVars, domVars, lastEvent>>

\* a view whose one visible range is the whole document is collected
CollectVisible ==
    /\ pc = "input"
    /\ offset = 0
    /\ results' = collectAnnotations(lineText, <<[from |-> 0, to |-> Len(lineText)]>>)
    /\ pc' = "collect"
    /\ UNCHANGED <<lineText, offset, viewVars, tipVars, domVars, lastEvent>>

\* the windows [cuts[r-1], cuts[r]) between the cut offsets, in order
RECURSIVE WindowsAt(_, _, _)
WindowsAt(cuts, from, to) ==
    IF cuts = {} THEN <<[from |-> from, to |-> to]>>
    ELSE <<[from |-> from, to |-> Min(cuts)]>> \o WindowsAt(cuts \ {Min(cuts)}, Min(cuts), to)

\* the partitions of the text into at most MaxWindows contiguous non-empty windows
Partitions(text) ==
    {WindowsAt(cuts, 0, Len(text)) :
        cuts \in {c \in SUBSET (1..(Len(text) - 1)) : Cardinality(c) < MaxWindows}}

\* the texts collected window by window: the shorter texts, the pairs of
\* annotations and scenario 3
WindowTexts ==
    {t \in Texts : Len(t) <= MaxLen + 1} \cup PairTexts \cup {Scenario3}

\* a view whose visible ranges are contiguous windows covering the document is
\* collected
CollectWindows ==
    /\ pc = "input"
    /\ offset = 0
    /\ lineText \in WindowTexts
    /\ \E ranges \in Partitions(lineText) :
           /\ visibleRanges' = ranges
           /\ results' = collectAnnotations(lineText, ranges)
    /\ pc' = "windows"
    /\ UNCHANGED <<lineText, offset, doc, selection, livePreview, decorations, tipVars,
                   domVars, lastEvent>>

----------------------------------------------------------------------------
(* postProcessor.ts: the reading view's post processor, for one text leaf. *)
(* A node of the replacement fragment is a text node or a styled span.     *)

\* the first while loop: the MatchInfo of every comment match
RECURSIVE CommentMatches(_, _)
CommentMatches(text, lastIndex) ==
    IF CommentStarts(text, lastIndex) = {} THEN <<>>
    ELSE LET m == CommentExec(text, lastIndex)
         IN  <<[index |-> m.index, length |-> m.length, type |-> "comment",
                comment |-> m.g1, text |-> m.g2]>>
                \o CommentMatches(text, m.index + m.length)

\* the second while loop: the MatchInfo of every mask match
RECURSIVE MaskMatches(_, _)
MaskMatches(text, lastIndex) ==
    IF MaskStarts(text, lastIndex) = {} THEN <<>>
    ELSE LET m == MaskExec(text, lastIndex)
         IN  <<[index |-> m.index, length |-> m.length, type |-> "mask",
                comment |-> <<>>, text |-> m.g1]>>
                \o MaskMatches(text, m.index + m.length)

\* matches.sort((a, b) => a.index - b.index): a stable sort
RECURSIVE InsertByIndex(_, _)
InsertByIndex(sorted, a) ==
    IF sorted = <<>> THEN <<a>>
    ELSE IF sorted[Len(sorted)].index <= a.index THEN Append(sorted, a)
    ELSE Append(InsertByIndex(SubSeq(sorted, 1, Len(sorted) - 1), a), sorted[Len(sorted)])

RECURSIVE SortByIndex(_)
SortByIndex(matches) ==
    IF matches = <<>> THEN <<>>
    ELSE InsertByIndex(SortByIndex(SubSeq(matches, 1, Len(matches) - 1)),
                       matches[Len(matches)])

\* the matches of both patterns in the leaf's text, sorted by position
LeafMatches(text) == SortByIndex(CommentMatches(text, 0) \o MaskMatches(text, 0))

\* document.createTextNode(t)
TextNode(t) == [node |-> "text", class |-> "", comment |-> <<>>, text |-> t]

\* the span created for a match
SpanNode(match) ==
    IF match.type = "comment"
    THEN [node |-> "span", class |-> "annotation-comment", comment |-> match.comment,
          text |-> match.text]
    ELSE [node |-> "span", class |-> "annotation-mask", comment |-> <<>>,
          text |-> match.text]

\* the for loop over the sorted matches from match number n, and the remaining text
RECURSIVE FragmentFrom(_, _, _, _)
FragmentFrom(text, matches, n, lastIndex) ==
    IF n > Len(matches)
    THEN IF lastIndex < Len(text) THEN <<TextNode(Slice(text, lastIndex, Len(text)))>>
         ELSE <<>>
    ELSE LET match == matches[n]
         IN  (IF match.index > lastIndex
              THEN <<TextNode(Slice(text, lastIndex, match.index))>>
              ELSE <<>>)
             \o <<SpanNode(match)>>
             \o FragmentFrom(text, matches, n + 1, match.index + match.length)

\* the nodes in the leaf's place after the post processor: the fragment, or the
\* leaf itself when neither pattern matches its text
annotationPostProcessor(text) ==
    IF CommentStarts(text, 0) = {} /\ MaskStarts(text, 0) = {}
    THEN <<TextNode(text)>>
    ELSE FragmentFrom(text, LeafMatches(text), 1, 0)

\* the post processor is handed an element whose one text leaf holds the text
PostProcess ==
    /\ pc = "input"
    /\ offset = 0
    /\ results' = annotationPostProcessor(lineText)
    /\ pc' = "fragment"
    /\ UNCHANGED <<lineText, offset, viewVars, tipVars, domVars, lastEvent>>

----------------------------------------------------------------------------
(* main.ts: the two editor commands, run in an editor whose document is    *)
(* the selection.                                                          *)

\* the default label of the comment command, two characters
PLACEHOLDER == <<"p", "q">>

\* the selection holds none of the marker sequences
MarkerFree(sel) ==
    /\ ~Contains(sel, OPEN_COMMENT) /\ ~Contains(sel, SEPARATOR)
    /\ ~Contains(sel, OPEN_MASK) /\ ~Contains(sel, CLOSE_MASK)

\* the text the mask command hands to editor.replaceSelection
WrapInMask(sel) == <<"~", "=">> \o sel \o <<"=", "~">>

\* the text the comment command hands to editor.replaceSelection
WrapInComment(sel) == <<"=">> \o sel \o <<":", ":">> \o PLACEHOLDER \o <<"=">>

\* 'Add Mask to selection': the selection is replaced, the cursor is after the
\* inserted text; the editor's text is then parsed
AddMaskToSelection ==
    /\ pc = "input"
    /\ offset = 0
    /\ MarkerFree(lineText)
    /\ doc' = WrapInMask(lineText)
    /\ selection' = <<[from |-> Len(doc'), to |-> Len(doc')]>>
    /\ results' = parseAnnotationsFromLine(doc', 0)
    /\ pc' = "wrapMask"
    /\ UNCHANGED <<lineText, offset, visibleRanges, livePreview, decorations, tipVars,
                   domVars, lastEvent>>

\* 'Add Comment to selection': the selection is replaced and the placeholder is
\* selected; the editor's text is then parsed
AddCommentToSelection ==
    /\ pc = "input"
    /\ offset = 0
    /\ MarkerFree(lineText)
    /\ doc' = WrapInComment(lineText)
    /\ selection' = <<[from |-> Len(doc') - 3, to |-> Len(doc') - 1]>>
    /\ results' = parseAnnotationsFromLine(doc', 0)
    /\ pc' = "wrapComment"
    /\ UNCHANGED <<lineText, offset, visibleRanges, livePreview, decorations, tipVars,
                   domVars, lastEvent>>

NextParse ==
    \/ ParseLine \/ ParseDoc \/ CollectVisible \/ CollectWindows \/ PostProcess
    \/ AddMaskToSelection \/ AddCommentToSelection

SpecParse == InitParse /\ [][NextParse]_vars

----------------------------------------------------------------------------
(* Claims about the parser.                                                *)

Comments(anns) == SelectSeq(anns, LAMBDA a : a.type = "comment")
Masks(anns) == SelectSeq(anns, LAMBDA a : a.type = "mask")

\* The text holds exactly one well-formed comment, opened at i, separated at
\* j and closed at k: == occurs at i and k and nowhere else, and the
\* separator is the first :: after the opening marker.
OneComment(s, i, j, k) ==
    /\ i + 2 <= j /\ j + 2 <= k
    /\ OccursAt(s, SEPARATOR, j)
    /\ {x \in 0..Len(s) : OccursAt(s, OPEN_COMMENT, x)} = {i, k}
    /\ \A x \in (i + 2)..(j - 1) : ~OccursAt(s, SEPARATOR, x)

\* the annotation the round-trip property expects, its syntax span ending
\* markerLen characters plus label and payload after o
ExpectedComment(s, off, i, j, k, markerLen) ==
    LET o == off + i
        C == Slice(s, i + 2, j)
        T == Slice(s, j + 2, k)
    IN  [type |-> "comment", from |-> o + 2 + Len(C) + 2, to |-> o + 2 + Len(C) + 2 + Len(T),
         comment |-> C, syntaxFrom |-> o, syntaxTo |-> o + markerLen + Len(C) + Len(T)]

\* C1 as stated: for a text with exactly one well-formed comment ==C::T==
\* at offset o, the parser returns one Comment annotation with syntaxFrom = o,
\* syntaxTo = o+4+|C|+|T|, from = o+2+|C|+2, to = from+|T|, comment = C.
C1_Original ==
    pc = "line" =>
        \A i, j, k \in 0..Len(lineText) :
            OneComment(lineText, i, j, k) =>
                Comments(results) = <<ExpectedComment(lineText, offset, i, j, k, 4)>>

\* C1 amended: the same, with syntaxTo = o+6+|C|+|T| (the three markers ==,
\* :: and == are six characters).
C1_RoundTrip ==
    pc = "line" =>
        \A i, j, k \in 0..Len(lineText) :
            OneComment(lineText, i, j, k) =>
                Comments(results) = <<ExpectedComment(lineText, offset, i, j, k, 6)>>

\* C1 witness: a parsed text with one comment that has a label, a payload,
\* text before it and a base offset.
C1_Witness ==
    /\ pc = "line"
    /\ offset > 0
    /\ \E i, j, k \in 1..Len(lineText) :
        /\ OneComment(lineText, i, j, k)
        /\ j > i + 2 /\ k > j + 2
        /\ Len(results) = 1

\* C2 as stated: parsing ==note::hello== at offset 0 returns exactly one
\* annotation, Comment{comment: "note", from: 7, to: 12, syntaxFrom: 0, syntaxTo: 16}.
C2_Original ==
    (pc = "line" /\ lineText = Scenario1 /\ offset = 0) =>
        results = <<[type |-> "comment", comment |-> <<"n", "o", "t", "e">>,
                     from |-> 7, to |-> 12, syntaxFrom |-> 0, syntaxTo |-> 16]>>

\* C2 amended: parsing ==note::hello== at offset 0 returns exactly one
\* annotation, Comment{comment: "note", from: 8, to: 13, syntaxFrom: 0, syntaxTo: 15}.
C2_Scenario1 ==
    (pc = "line" /\ lineText = Scenario1 /\ offset = 0) =>
        results = <<[type |-> "comment", comment |-> <<"n", "o", "t", "e">>,
                     from |-> 8, to |-> 13, syntaxFrom |-> 0, syntaxTo |-> 15]>>

\* C2 witness: scenario 1 has been parsed at offset 0.
C2_Witness == pc = "line" /\ lineText = Scenario1 /\ offset = 0 /\ Len(results) = 1

\* The text is one well-formed mask ~=T=~ and nothing else: it opens with
\* ~=, closes with =~, and T does not contain =~.
OneMask(s) ==
    /\ Len(s) >= 4
    /\ OccursAt(s, OPEN_MASK, 0)
    /\ OccursAt(s, CLOSE_MASK, Len(s) - 2)
    /\ ~Contains(Slice(s, 2, Len(s) - 2), CLOSE_MASK)

\* C3: for a text that is one well-formed mask ~=T=~ at offset o (T may hold
\* = but not =~) the parser returns exactly one Mask annotation, with
\* syntaxFrom = o, syntaxTo = o+4+|T|, from = o+2, to = from+|T|.
C3_MaskRoundTrip ==
    (pc = "line" /\ OneMask(lineText)) =>
        LET T == Slice(lineText, 2, Len(lineText) - 2)
        IN  Masks(results) = <<[type |-> "mask", from |-> offset + 2,
                                to |-> offset + 2 + Len(T), syntaxFrom |-> offset,
                                syntaxTo |-> offset + 4 + Len(T)]>>

\* C3 witness: a parsed mask whose payload holds an = character, at a base offset.
C3_Witness ==
    /\ pc = "line" /\ OneMask(lineText) /\ offset > 0
    /\ \E p \in 3..(Len(lineText) - 2) : lineText[p] = "="
    /\ Len(Masks(results)) = 1

\* no two consecutive entries of the list sorted by syntaxFrom overlap
NoConsecutiveOverlap(anns) ==
    LET sorted == SortBySyntaxFrom(anns)
    IN  \A n \in 1..(Len(sorted) - 1) : sorted[n].syntaxTo <= sorted[n + 1].syntaxFrom

\* C4 as stated: for any input text the returned list (comments and masks
\* together), sorted by syntaxFrom, has no two consecutive overlapping entries.
C4_Original == pc \in {"line", "doc", "collect"} => NoConsecutiveOverlap(results)

\* C4 amended: the comments among themselves, and the masks among
\* themselves, sorted by syntaxFrom, have no two consecutive overlapping entries.
C4_NonOverlapPerKind ==
    pc \in {"line", "doc", "collect"} =>
        /\ NoConsecutiveOverlap(Comments(results))
        /\ NoConsecutiveOverlap(Masks(results))

\* C4 witness: a parse of one line that returned two comments, the second
\* starting where the first ends.
C4_Witness ==
    /\ pc = "line"
    /\ Len(Comments(results)) >= 2
    /\ results[1].syntaxTo = results[2].syntaxFrom

----------------------------------------------------------------------------
(* Claims about the collector and the decoration builder.                  *)

\* C5: the builder adds its directives in strictly increasing from order,
\* no directive overlapping the next one, for every collected annotation
\* list, every selection and either mode.
C5_DirectiveOrdering ==
    pc = "view" =>
        \A n \in 1..(Len(decorations) - 1) :
            /\ decorations[n].from < decorations[n + 1].from
            /\ decorations[n].to <= decorations[n + 1].from

\* the payload [j + 2, k) of a comment opened at i holds a newline
NewlineInPayload(s, j, k) == \E p \in (j + 2)..(k - 1) : s[p + 1] = NL

\* C6: a document holding one well-formed comment or mask whose payload
\* contains a newline, parsed by parseAnnotations or collected by
\* collectAnnotations, yields that annotation with a payload range that
\* includes the newline.
C6_MultiLinePayload ==
    pc \in {"doc", "collect"} =>
        /\ \A i, j, k \in 0..Len(lineText) :
              (OneComment(lineText, i, j, k) /\ NewlineInPayload(lineText, j, k)) =>
                  \E n \in 1..Len(results) :
                      /\ results[n].type = "comment"
                      /\ results[n].from = j + 2 /\ results[n].to = k
        /\ (OneMask(lineText) /\ NewlineInPayload(lineText, 0, Len(lineText) - 2)) =>
              \E n \in 1..Len(results) :
                  /\ results[n].type = "mask"
                  /\ results[n].from = 2 /\ results[n].to = Len(lineText) - 2

----------------------------------------------------------------------------
(* Claims about the hover handler and the tooltip controller.              *)

\* the request onSave builds from the annotation ann and the text N
EditRequest(ann, N) ==
    [from |-> ann.syntaxFrom, to |-> ann.from, insert |-> <<"=", "=">> \o N \o <<":", ":">>]

\* C7: a confirmed edit with new text N through the tooltip of a hovered comment
\* annotation hands view.dispatch exactly one edit request, which replaces
\* [syntaxFrom, from) of that annotation by ==N::; with syntaxFrom = 5, from = 12
\* and N = "hi" it replaces [5, 12) by "==hi::".
C7_CommentEditSave ==
    lastEvent \in {"save", "saveFailed"} =>
        /\ activeTooltip \in DOMAIN tooltips
        /\ tooltips[activeTooltip].ann # <<>>
        /\ Len(dispatched) = 1
        /\ LET ann == tooltips[activeTooltip].ann[1]
           IN  /\ \E v \in InputValues : dispatched[1] = EditRequest(ann, Trim(v))
               /\ lastEvent = "save" =>
                      dispatched[1] = EditRequest(ann, tooltips[activeTooltip].display)
               /\ (ann.syntaxFrom = 5 /\ ann.from = 12
                      /\ tooltips[activeTooltip].display = <<"h", "i">> /\ lastEvent = "save") =>
                      dispatched[1] = [from |-> 5, to |-> 12,
                                       insert |-> <<"=", "=", "h", "i", ":", ":">>]

C7_Witness ==
    /\ lastEvent = "save"
    /\ dispatched = <<[from |-> 5, to |-> 12, insert |-> <<"=", "=", "h", "i", ":", ":">>]>>

\* C8: every confirmed edit replaces only the label portion of a comment annotation
\* as it stands in the document when the save happens: the replaced range is
\* [syntaxFrom, from) of a comment annotation of the current document, and the
\* payload and the closing == are the same after the save as before.
C8_PayloadUntouched ==
    [][lastEvent' = "save" =>
          \E n \in 1..Len(collectAnnotations(doc, visibleRanges)) :
              LET a == collectAnnotations(doc, visibleRanges)[n]
                  delta == Len(doc') - Len(doc)
              IN  /\ a.type = "comment"
                  /\ dispatched'[1].from = a.syntaxFrom
                  /\ dispatched'[1].to = a.from
                  /\ Slice(doc', a.from + delta, a.syntaxTo + delta)
                         = Slice(doc, a.from, a.syntaxTo)]_vars

\* C9: at most one tooltip element is attached, and an attached element is the
\* one activeTooltip refers to.
C9_AtMostOneTooltip ==
    /\ Cardinality(DOMAIN tooltips) <= 1
    /\ DOMAIN tooltips = IF activeTooltip = 0 THEN {} ELSE {activeTooltip}

\* a tooltip shown while another one was showing, then edited and confirmed
C9_Witness ==
    /\ activeTooltip = 2
    /\ DOMAIN tooltips = {2}
    /\ lastEvent \in {"save", "revert", "cancel"}

\* C10: while isEditing is set, a mouseout (hideTooltip) and a mouseover or
\* mouseenter on a comment span (showTooltip) leave the active tooltip, its
\* input and the editing flag unchanged.
C10_EditingSuppresses ==
    [][(isEditing /\ lastEvent' \in {"mouseout", "mouseover", "mouseenter"}) =>
          UNCHANGED <<activeTooltip, tooltips, isEditing>>]_vars

C10_Witness ==
    /\ isEditing
    /\ lastEvent = "mouseout"
    /\ activeTooltip \in DOMAIN tooltips
    /\ tooltips[activeTooltip].input

\* the step is a run of saveChanges on the textarea of element id
ConfirmStep(id) ==
    /\ tooltips[id].input
    /\ lastEvent' \in {"save", "saveFailed", "revert"}

\* the step is a run of the Escape branch on the textarea of element id
CancelStep(id) == tooltips[id].input /\ lastEvent' = "cancel"

\* what the claim requires of a confirm or a cancel on element id, prior being
\* the comment that counts as the prior one
EditingToShowing(id, prior) ==
    LET newVal == Trim(tooltips[id].value)
    IN  /\ ConfirmStep(id) =>
               IF newVal # <<>> /\ newVal # prior
               THEN dispatched' = <<EditRequest(tooltips[id].ann[1], newVal)>>
               ELSE dispatched' = <<>> /\ tooltips'[id].display = prior
        /\ CancelStep(id) => dispatched' = <<>> /\ tooltips'[id].display = prior

\* C11: a confirmed edit invokes the edit callback with the trimmed input exactly
\* when that value is non-empty and differs from the prior comment (the comment the
\* tooltip displayed when the edit session began), and otherwise the display
\* reverts to the prior comment; a cancel reverts the display and invokes nothing.
C11_EditingToShowing ==
    [][\A id \in DOMAIN tooltips : EditingToShowing(id, tooltips[id].display)]_vars

\* C12: only a tooltip shown with an edit callback enters the editing state: for a
\* tooltip shown without one (by the reading view, or by an editor hover that
\* resolved no annotation) the editing flag is not set, no textarea is attached
\* and no edit request has been issued.
C12_EditGating ==
    \A id \in DOMAIN tooltips :
        /\ tooltips[id].editable <=> tooltips[id].ann # <<>>
        /\ ~tooltips[id].editable =>
               ~isEditing /\ ~tooltips[id].input /\ dispatched = <<>>
        /\ (isEditing \/ dispatched # <<>>) => tooltips[id].editable

\* a tooltip of the reading view has replaced another tooltip
C12_Witness ==
    /\ lastEvent = "mouseenter"
    /\ activeTooltip = 2
    /\ activeTooltip \in DOMAIN tooltips
    /\ ~tooltips[activeTooltip].editable

----------------------------------------------------------------------------
(* Claims about the decoration policy.                                     *)

\* the stored decorations are those of the view's present state
Rebuilt ==
    /\ pc = "view" /\ extension # "none"
    /\ lastEvent \in {"constructor", "docChanged", "viewportChanged", "selectionSet"}

\* the annotations of the visible ranges, in the builder's order
Visible == collectAnnotations(doc, visibleRanges)

\* where the directives of annotation number k start in the stored decorations
RECURSIVE SegmentStart(_)
SegmentStart(k) ==
    IF k = 1 THEN 1
    ELSE SegmentStart(k - 1)
         + Len(DirectivesBy(extension, doc, selection, livePreview, Visible[k - 1]))

\* the directives the builder added for annotation number k
DirectivesFor(k) ==
    SubSeq(decorations, SegmentStart(k), SegmentStart(k + 1) - 1)

\* some selection range lies within [syntaxFrom, syntaxTo], both ends inclusive
SelectionWithin(ann) ==
    \E n \in 1..Len(selection) :
        ann.syntaxFrom <= selection[n].from /\ selection[n].to <= ann.syntaxTo

\* the builder treated annotation number k as cursor-inside: it kept the markers
MarkersShown(k) ==
    \A n \in 1..Len(DirectivesFor(k)) : DirectivesFor(k)[n].kind = "mark"

\* C13: in rich preview mode the builder treats an annotation of either kind as
\* cursor-inside exactly when some selection range r has syntaxFrom <= r.from and
\* r.to <= syntaxTo; a selection equal to [from, to] is inside, a selection
\* entirely outside [syntaxFrom, syntaxTo] is not.
C13_CursorInsideRule ==
    (Rebuilt /\ IsLivePreview(livePreview)) =>
        \A k \in 1..Len(Visible) :
            /\ MarkersShown(k) <=> SelectionWithin(Visible[k])
            /\ selection = <<[from |-> Visible[k].from, to |-> Visible[k].to]>>
                   => MarkersShown(k)
            /\ (\A n \in 1..Len(selection) :
                   selection[n].to < Visible[k].syntaxFrom
                   \/ selection[n].from > Visible[k].syntaxTo) => ~MarkersShown(k)

\* the selection is the payload range of one annotation and lies outside another
C13_Witness ==
    /\ Rebuilt /\ IsLivePreview(livePreview)
    /\ lastEvent = "selectionSet"
    /\ \E k, j \in 1..Len(Visible) :
           /\ selection = <<[from |-> Visible[k].from, to |-> Visible[k].to]>>
           /\ MarkersShown(k)
           /\ selection[1].from > Visible[j].syntaxTo
           /\ ~MarkersShown(j)

\* the directives the claims name
Hide(from, to) ==
    [from |-> from, to |-> to, kind |-> "hide", class |-> "", attr |-> <<>>, content |-> <<>>]

PayloadMark(ann) ==
    [from |-> ann.from, to |-> ann.to, kind |-> "mark",
     class |-> IF ann.type = "comment" THEN "annotation-comment" ELSE "annotation-mask",
     attr |-> IF ann.type = "comment" THEN ann.comment ELSE <<>>, content |-> <<>>]

ReplaceWithWidget(ann) ==
    [from |-> ann.syntaxFrom, to |-> ann.syntaxTo, kind |-> "widget",
     class |-> "annotation-mask", attr |-> <<>>, content |-> Slice(doc, ann.from, ann.to)]

\* C14: in rich preview mode a comment that is not cursor-inside gets exactly three
\* directives, in this order: hide over [syntaxFrom, from), the annotation-comment
\* mark carrying the comment text over [from, to), hide over [to, syntaxTo).
C14_CommentRichPreview ==
    (Rebuilt /\ IsLivePreview(livePreview)) =>
        \A k \in 1..Len(Visible) :
            (Visible[k].type = "comment" /\ ~SelectionWithin(Visible[k])) =>
                DirectivesFor(k) = <<Hide(Visible[k].syntaxFrom, Visible[k].from),
                                     PayloadMark(Visible[k]),
                                     Hide(Visible[k].to, Visible[k].syntaxTo)>>

\* a comment with a label and a payload is shown with its markers hidden
C14_Witness ==
    /\ Rebuilt /\ IsLivePreview(livePreview) /\ lastEvent = "selectionSet"
    /\ \E k \in 1..Len(Visible) :
           /\ Visible[k].type = "comment" /\ Visible[k].comment # <<>>
           /\ Visible[k].from < Visible[k].to
           /\ ~SelectionWithin(Visible[k])
           /\ Len(DirectivesFor(k)) = 3

\* C15: an annotation of either kind that is cursor-inside in rich preview mode,
\* and every annotation in source mode, gets exactly one directive: the style mark
\* over its payload [from, to), and no hide or replace directive.
C15_MarkersShown ==
    Rebuilt =>
        \A k \in 1..Len(Visible) :
            (~IsLivePreview(livePreview) \/ SelectionWithin(Visible[k])) =>
                DirectivesFor(k) = <<PayloadMark(Visible[k])>>

\* a mask is cursor-inside in rich preview mode while a comment is not
C15_Witness ==
    /\ Rebuilt /\ IsLivePreview(livePreview) /\ lastEvent = "selectionSet"
    /\ \E k, j \in 1..Len(Visible) :
           /\ Visible[k].type = "mask" /\ SelectionWithin(Visible[k])
           /\ DirectivesFor(k) = <<PayloadMark(Visible[k])>>
           /\ Visible[j].type = "comment" /\ ~SelectionWithin(Visible[j])

\* C16: in rich preview mode a mask that is not cursor-inside gets exactly one
\* directive, a replace-with-widget over [syntaxFrom, syntaxTo) whose content is
\* the payload text, in every version of the builder.
C16_MaskWidgetPolicy ==
    (Rebuilt /\ IsLivePreview(livePreview)) =>
        \A k \in 1..Len(Visible) :
            (Visible[k].type = "mask" /\ ~SelectionWithin(Visible[k])) =>
                DirectivesFor(k) = <<ReplaceWithWidget(Visible[k])>>

\* C17: when the mode flag cannot be read, building raises no error and the stored
\* directives are those of source mode: one payload mark per annotation.
C17_ModeFlagUnavailable ==
    (pc = "view" /\ livePreview = "unavailable" /\ lastEvent # "modeChanged") =>
        /\ extension # "none"
        /\ Len(decorations) = Len(Visible)
        /\ \A k \in 1..Len(Visible) : decorations[k] = PayloadMark(Visible[k])

\* C18: after every update in which the document changed, the viewport changed or
\* the selection was set, the stored decorations are the builder applied to the
\* collector's output for the text, selection and visible ranges of that update.
C18_RebuildOnChange ==
    (pc = "view" /\ lastEvent \in {"docChanged", "viewportChanged", "selectionSet"}
        /\ extension # "none") =>
        decorations = Decorate(extension, doc, selection, livePreview,
                               collectAnnotations(doc, visibleRanges))

\* a rebuild after the viewport changed replaced what a selection change had stored
C18_Witness ==
    /\ pc = "view" /\ extension # "none"
    /\ lastEvent = "viewportChanged"
    /\ Len(visibleRanges) = 2
    /\ selection # <<[from |-> 0, to |-> 0]>>
    /\ decorations # <<>>

----------------------------------------------------------------------------
(* Claims about the DOM reconciler.                                        *)

\* the active masks: rich preview mode, and no selection range within the mask
ActiveMaskAnnotations ==
    {k \in 1..Len(Visible) :
        /\ Visible[k].type = "mask"
        /\ livePreview = "on"
        /\ ~SelectionWithin(Visible[k])}

\* the elements whose position resolves and lies within the full syntax span of an active mask
WithinSyntaxSpan ==
    {el \in widgetElements \ unresolvable :
        \E k \in ActiveMaskAnnotations :
            Visible[k].syntaxFrom <= el /\ el <= Visible[k].syntaxTo}

\* the elements whose position resolves and lies within the payload range of an active mask
WithinPayload ==
    {el \in widgetElements \ unresolvable :
        \E k \in ActiveMaskAnnotations : Visible[k].from <= el /\ el <= Visible[k].to}

\* C19 as stated: after a pass the tagged elements are exactly those positioned
\* within [syntaxFrom, syntaxTo] of an active mask.
C19_Original ==
    (pc = "reconciler" /\ lastEvent = "frame") => blurred = WithinSyntaxSpan

\* C19: after a reconciliation pass the elements carrying the blur tag are exactly
\* the rich-content elements positioned within the payload range [from, to] of an
\* active mask; tags of earlier passes on other elements are gone.
C19_ReconcilerTagging ==
    (pc = "reconciler" /\ lastEvent = "frame") => blurred = WithinPayload

\* after a pass an element in the payload is tagged and one on the opening marker
\* of the same active mask is not
C19_Witness ==
    /\ pc = "reconciler" /\ lastEvent = "frame"
    /\ \E k \in ActiveMaskAnnotations :
           /\ Visible[k].from \in blurred
           /\ Visible[k].syntaxFrom \in widgetElements \ blurred

\* C20: every rebuild runs the reconciler at once, so that the tags fit the
\* rebuilt state, and leaves at least one further run pending.
C20_ReconcilerReinvocation ==
    [][(pc = "reconciler" /\ lastEvent' \in {"docChanged", "selectionSet"}) =>
          (blurred' = WithinPayload' /\ frames' >= frames + 1)]_vars

\* the tags a pass leaves when the elements of F are absent from the editor and
\* every position resolves
TagsWithout(F) ==
    applyDomMaskEffects(selection, livePreview, Visible, widgetElements \ F, {}, {})

\* C21: after a reconciliation pass in which the position of some element could
\* not be resolved, no such element is tagged, the pass has completed, and the
\* tagged elements are exactly those the pass tags when the failing elements are
\* absent.
C21_PositionResolutionFailure ==
    (pc = "reconciler" /\ lastEvent = "frame" /\ unresolvable # {}) =>
        /\ blurred \cap unresolvable = {}
        /\ blurred = TagsWithout(unresolvable)

\* a pass met a failing element in the payload of an active mask and tagged a
\* resolvable element that follows it
C21_Witness ==
    /\ pc = "reconciler" /\ lastEvent = "frame"
    /\ \E k \in ActiveMaskAnnotations :
           \E f \in unresolvable, el \in blurred :
               /\ Visible[k].from <= f /\ f < el /\ el <= Visible[k].to

----------------------------------------------------------------------------
(* Further claims about the parser.                                        *)

\* the annotations of a list, as a set
AsSet(anns) == {anns[n] : n \in 1..Len(anns)}

\* some annotation of the list has a window boundary strictly inside its syntax span
SpansBoundary(anns, ranges) ==
    \E n \in 1..Len(anns), r \in 1..(Len(ranges) - 1) :
        anns[n].syntaxFrom < ranges[r].to /\ ranges[r].to < anns[n].syntaxTo

\* C22: when a text is cut into contiguous windows and no annotation of the text
\* spans a window boundary, the annotations collected window by window, each window
\* with its start as running offset, are as a set the annotations parseAnnotations
\* returns for the whole text.
C22_OffsetConsistency ==
    (pc = "windows" /\ ~SpansBoundary(parseAnnotations(lineText), visibleRanges)) =>
        AsSet(results) = AsSet(parseAnnotations(lineText))

\* two windows, each holding an annotation of the text
C22_Witness ==
    /\ pc = "windows" /\ Len(visibleRanges) = 2
    /\ ~SpansBoundary(parseAnnotations(lineText), visibleRanges)
    /\ \E n, q \in 1..Len(results) :
           /\ results[n].syntaxTo <= visibleRanges[1].to
           /\ results[q].syntaxFrom >= visibleRanges[2].from
           /\ results[q].syntaxFrom > 0

\* C23: the list parseAnnotationsFromLine returns for a line is in ascending
\* syntaxFrom order, whatever mix of comments and masks the line holds.
C23_LeftToRightOrder ==
    pc = "line" =>
        \A n \in 1..(Len(results) - 1) : results[n].syntaxFrom <= results[n + 1].syntaxFrom

\* C24: every annotation the parser returns, by any of its entry points and for
\* any text and offset, has syntaxFrom < syntaxTo and
\* syntaxFrom <= from <= to <= syntaxTo.
C24_RecordInvariant ==
    pc \in {"line", "doc", "collect", "windows"} =>
        \A n \in 1..Len(results) :
            /\ results[n].syntaxFrom < results[n].syntaxTo
            /\ results[n].syntaxFrom <= results[n].from
            /\ results[n].from <= results[n].to
            /\ results[n].to <= results[n].syntaxTo

\* a line parsed at a positive offset gave a comment and a mask with empty
\* payloads, from = to
C24_Witness ==
    /\ pc = "line" /\ offset > 0
    /\ \E n, q \in 1..Len(results) :
           /\ results[n].type = "comment" /\ results[n].from = results[n].to
           /\ results[q].type = "mask" /\ results[q].from = results[q].to

\* the text opens a comment or a mask, and no opening marker of the text has a
\* closing marker of its kind after it
Unterminated(s) ==
    /\ \/ \E i, j \in 0..Len(s) :
              OccursAt(s, OPEN_COMMENT, i) /\ j >= i + 2 /\ OccursAt(s, SEPARATOR, j)
       \/ \E i \in 0..Len(s) : OccursAt(s, OPEN_MASK, i)
    /\ \A i, k \in 0..Len(s) :
          /\ (OccursAt(s, OPEN_COMMENT, i) /\ k >= i + 2) => ~OccursAt(s, CLOSE_COMMENT, k)
          /\ (OccursAt(s, OPEN_MASK, i) /\ k >= i + 2) => ~OccursAt(s, CLOSE_MASK, k)

\* C25: for a text that opens a comment or a mask and has no closing marker after
\* an opening one, the parser returns the empty annotation list, by each of its
\* entry points.
C25_UnterminatedSyntax ==
    pc \in {"line", "doc", "collect", "windows"} =>
        (results = <<>> \/ ~Unterminated(lineText))

\* scenario 4 was parsed and gave the empty list
C25_Witness ==
    /\ pc = "line" /\ lineText = Scenario4 /\ Unterminated(lineText) /\ results = <<>>

----------------------------------------------------------------------------
(* Further claims about the view plugin.                                   *)

\* the events after which update() has called the builder
RebuildEvents == {"constructor", "docChanged", "viewportChanged", "selectionSet"}

----------------------------------------------------------------------------
(* Claims about the reading view's post processor.                         *)

\* offset p of the text lies in a marker or in the label of the match
InMarkerOrLabel(match, p) ==
    LET payloadFrom == IF match.type = "comment" THEN match.index + 4 + Len(match.comment)
                       ELSE match.index + 2
    IN  /\ match.index <= p /\ p < match.index + match.length
        /\ ~(payloadFrom <= p /\ p < payloadFrom + Len(match.text))

\* the characters of the text from offset p on that lie outside every marker and
\* label, in order
RECURSIVE OutsideMarkers(_, _, _)
OutsideMarkers(text, matches, p) ==
    IF p >= Len(text) THEN <<>>
    ELSE (IF \E n \in 1..Len(matches) : InMarkerOrLabel(matches[n], p) THEN <<>>
          ELSE <<text[p + 1]>>)
         \o OutsideMarkers(text, matches, p + 1)

\* the text content of a node list
RECURSIVE TextContent(_)
TextContent(nodes) ==
    IF nodes = <<>> THEN <<>> ELSE Head(nodes).text \o TextContent(Tail(nodes))

\* the spans of a node list, in order
Spans(nodes) == SelectSeq(nodes, LAMBDA nd : nd.node = "span")

\* some two matches of the text overlap
MatchesOverlap(matches) ==
    \E n, q \in 1..Len(matches) :
        n # q /\ matches[n].index <= matches[q].index
              /\ matches[q].index < matches[n].index + matches[n].length

\* C27: the spans of the replacement fragment are those of the matches in order of
\* match start, and the fragment's text is the leaf's text without the markers and
\* comment labels, every other character once and in its place, also when matches
\* overlap.
C27_PostProcessingOrder ==
    pc = "fragment" =>
        LET matches == LeafMatches(lineText)
        IN  /\ Spans(results) = [n \in 1..Len(matches) |-> SpanNode(matches[n])]
            /\ TextContent(results) = OutsideMarkers(lineText, matches, 0)

----------------------------------------------------------------------------
(* Claims about the editor commands.                                       *)

\* the list holds exactly one annotation, of the given kind, whose payload range
\* holds the text sel in docText
OneAnnotationOf(anns, kind, docText, sel) ==
    /\ Len(anns) = 1
    /\ anns[1].type = kind
    /\ Slice(docText, anns[1].from, anns[1].to) = sel

\* C28: for a selection without marker sequences, the text the mask command
\* inserts parses to exactly one mask with the selection as payload, and the text
\* the comment command inserts parses to exactly one comment with the selection as
\* payload.
C28_WrapRoundTrip ==
    /\ pc = "wrapMask" => OneAnnotationOf(results, "mask", doc, lineText)
    /\ pc = "wrapComment" => OneAnnotationOf(results, "comment", doc, lineText)

\* C30: in every state of a view with an active plugin the stored decorations are
\* what the builder produces for the present text, visible ranges, selection and
\* mode flag, also after a change of the mode flag alone.
C30_DecorationsTrackMode ==
    (pc = "view" /\ extension # "none") =>
        decorations = Decorate(extension, doc, selection, livePreview, Visible)

----------------------------------------------------------------------------
(* Further claims about the tooltip controller.                            *)

\* C29: after every confirm (blur or Enter) and every cancel (Escape) of an edit
\* session the editing flag is clear, also when the edit callback raised an error
\* because the edit could not be applied.
C29_EditingAlwaysEnds ==
    (pc = "editor" /\ lastEvent \in {"save", "saveFailed", "revert", "cancel"}) =>
        ~isEditing

====
